---------------------------- MODULE Spec2Model ----------------------------
(***************************************************************************)
(* Model of the bilingual PDF invoice generator (src/script.py).           *)
(*                                                                         *)
(* Spec      sequential runs of main(): config load, reconciliation,       *)
(*           numbering, exchange-rate resolution, output directory, the    *)
(*           two renders, config persistence.                              *)
(* SpecRate  fetch_and_update_exchange_rate applied to every feed outcome  *)
(*           and invoice date within the bounds.                           *)
(* SpecId    invoice numbering (main lines 433-436, generate_invoice_id).  *)
(* SpecPdf   create_invoice_pdf, section by section, on a canvas.          *)
(*                                                                         *)
(* Conventions.  A Python string with a fixed layout is a tuple of its     *)
(* fields in the order the string holds them: "31/12/2024" is <<31,12,     *)
(* 2024>>, "2024-12-31" is <<2024,12,31>>, so that string comparison is    *)
(* the lexicographic order of the tuple.  A free text is the sequence of   *)
(* the lengths of its words.  Money is in mills (1/1000 USD), rates in     *)
(* 1/10000, lengths on the page in 1/100 pt.                               *)
(***************************************************************************)
EXTENDS Integers, Sequences, FiniteSets, TLC

VARIABLES
    disk,        \* config.json: a configuration record, or Unreadable
    config,      \* main's local `config` (NoConfig before read_config)
    pc,          \* main's position
    today,       \* main's local `today` (a date record)
    outdir,      \* the directory PDF_OUTPUT_DIR: [exists, files]
    fetches,     \* HTTP requests sent in the current run
    invoice,     \* main's locals invoice_number and invoice_id
    error,       \* the exception that ended the current run, if any
    printed,     \* lines printed by the current run
    runs,        \* runs of main() started so far
    hist,        \* history: state when the run started, successful runs
    cv,          \* create_invoice_pdf: the canvas and the layout cursor
    args,        \* create_invoice_pdf: its arguments
    call         \* the function under study in SpecRate / SpecId

mainVars == <<disk, config, pc, today, outdir, fetches, invoice, error,
              printed, runs, hist>>
pdfVars  == <<cv, args>>
vars     == <<disk, config, pc, today, outdir, fetches, invoice, error,
              printed, runs, hist, cv, args, call>>

---------------------------------------------------------------------------
(* Bounds of the model.                                                    *)

MaxDay      == 4    \* calendar days after Epoch that runs and feeds use
MaxPrev     == 101  \* largest previous sequence number tried by SpecId
MaxRuns     == 2    \* sequential runs of main()
MaxRunDay   == 2    \* calendar days after Epoch on which main() runs

---------------------------------------------------------------------------
(* Dates: datetime.date, strptime and strftime.                            *)

Epoch == [year |-> 2024, month |-> 12, day |-> 30]

IsLeap(y) == (y % 4 = 0 /\ y % 100 # 0) \/ y % 400 = 0

DaysInMonth(y, m) ==
    IF m = 2 THEN (IF IsLeap(y) THEN 29 ELSE 28)
    ELSE IF m \in {4, 6, 9, 11} THEN 30 ELSE 31

NextDay(d) ==
    IF d.day < DaysInMonth(d.year, d.month)
      THEN [d EXCEPT !.day = d.day + 1]
    ELSE IF d.month < 12
      THEN [year |-> d.year, month |-> d.month + 1, day |-> 1]
    ELSE [year |-> d.year + 1, month |-> 1, day |-> 1]

RECURSIVE DayN(_)
DayN(i) == IF i = 0 THEN Epoch ELSE NextDay(DayN(i - 1))

Days == {DayN(i) : i \in 0..MaxDay}

\* date.strftime('%d/%m/%Y'): the string "DD/MM/YYYY"
StrfDMY(d) == <<d.day, d.month, d.year>>

\* datetime.strptime(s, "%d/%m/%Y")
StrpDMY(s) == [year |-> s[3], month |-> s[2], day |-> s[1]]

\* date.strftime('%Y-%m-%d'): the string "YYYY-MM-DD"
StrfISO(d) == <<d.year, d.month, d.day>>

\* Python's <= on two strings of one fixed zero-padded layout
StrLeq(a, b) ==
    \/ a = b
    \/ \E i \in 1..Len(a) :
          /\ a[i] < b[i]
          /\ \A j \in 1..(i - 1) : a[j] = b[j]

---------------------------------------------------------------------------
(* Invoice numbering.                                                      *)

RECURSIVE Digits(_)
Digits(n) == IF n < 10 THEN <<n>> ELSE Append(Digits(n \div 10), n % 10)

\* f"{number}", the mutant of Format02d: no padding
FormatPlain(n) == Digits(n)

\* f"{number:02d}" for number >= 0: decimal digits, at least two
Format02d(n) == IF n < 10 THEN <<0, n>> ELSE Digits(n)

\* generate_invoice_id: "N° #" DD-MM-YYYY "-" XX
generate_invoice_id(date_str, number) ==
    LET dt       == StrpDMY(date_str)
        date_fmt == <<dt.day, dt.month, dt.year>>
    IN  [prefix |-> "N° #", date |-> date_fmt, num |-> Format02d(number)]

NextNumber(last_invoice_number) == last_invoice_number + 1

\* main, lines 433-436
NextId(tday, last_invoice_number) ==
    LET invoice_number == NextNumber(last_invoice_number)
        today_str      == StrfDMY(tday)
    IN  [number |-> invoice_number,
         id     |-> generate_invoice_id(today_str, invoice_number)]

---------------------------------------------------------------------------
(* The configuration document (config.json after json.load).               *)

NoRate == -1    \* Python's None as the value of config['exchange_rate']
NoDate == <<0, 0, 0>>

\* An exchange_rate_note: which of the f-strings built it, and the values
\* interpolated.  "absent" is a document without the key.
Note(kind, rate, date, req, err) ==
    [kind |-> kind, rate |-> rate, date |-> date, req |-> req, err |-> err]

NoNote == Note("absent", NoRate, NoDate, NoDate, "")

CompanyFields == <<"legal_name", "business_name", "contact_name", "email",
                   "phone", "address", "siret">>
BankFields    == <<"account_holder", "routing_number", "account_number",
                   "account_type", "bank", "bank_address">>

Range(s) == {s[i] : i \in 1..Len(s)}

\* n words of k characters each
Words(n, k) == [i \in 1..n |-> k]

FullCompany == [f \in Range(CompanyFields) |->
                  IF f = "address" THEN Words(6, 7) ELSE Words(2, 6)]
FullBank    == [f \in Range(BankFields) |->
                  IF f = "bank_address" THEN Words(5, 8) ELSE Words(1, 9)]

\* dict without one key
Without(d, k) == [f \in DOMAIN d \ {k} |-> d[f]]

Service(desc, qty, amount) ==
    [description |-> desc, unit |-> "Month", quantity |-> qty,
     amount_usd |-> amount]

BaseConfig ==
    [company            |-> FullCompany,
     receiver           |-> [name |-> Words(2, 8), address |-> Words(5, 7)],
     services           |-> <<Service(Words(3, 8), 1, 1000)>>,
     invoice            |-> [due_days |-> 30, last_invoice_number |-> 0],
     amount_excl_tax    |-> 1000,
     vat                |-> 0,
     amount_incl_tax    |-> 1000,
     vat_note           |-> <<3, 3, 10, 1, 4, 5, 2, 3, 6, 3, 5>>,
     payment_methods    |-> "transfer",
     output_name        |-> "Nicolas",
     bank_details       |-> FullBank,
     exchange_rate      |-> NoRate,
     exchange_rate_note |-> NoNote]

---------------------------------------------------------------------------
(* Exchange-rate resolution.                                               *)

\* What requests.get / raise_for_status / ET.fromstring do in a run: the
\* exception one of them raises, or "ok" with the parsed USD series, which
\* maps "YYYY-MM-DD" to the rate.
FeedFailures == {"ConnectionError", "HTTPError", "ParseError"}

Feed(status, series) == [status |-> status, series |-> series]

\* sorted(S)[0], the mutant of sorted(S)[-1]
StrMin(S) == CHOOSE d \in S : \A e \in S : StrLeq(d, e)

\* sorted(S)[-1] for a non-empty S
StrMax(S) == CHOOSE d \in S : \A e \in S : StrLeq(e, d)

\* `except Exception`, line 79, narrowed to the errors of requests: the mutant
CaughtRequestsOnly(exc) == exc \in {"ConnectionError", "HTTPError"}

\* `except Exception`, line 79: every exception the try block raises
Caught(exc) == TRUE

Returned(cfg) == [raised |-> "", config |-> cfg]

\* an exception raised inside the try block, lines 45-81
RateFailed(cfg, exc) ==
    IF Caught(exc)
    THEN Returned([cfg EXCEPT
           !.exchange_rate_note = Note("failed", NoRate, NoDate, NoDate, exc),
           !.exchange_rate      = NoRate])
    ELSE [raised |-> exc, config |-> cfg]

\* fetch_and_update_exchange_rate(config, emission_date), given the feed:
\* the config returned, or the exception that leaves the function
fetch_and_update_exchange_rate(cfg, emission_date, fd) ==
    LET invoice_date     == StrpDMY(emission_date)
        date_to_rate     == fd.series
        invoice_date_str == StrfISO(invoice_date)
        available_dates  == {d \in DOMAIN date_to_rate : StrLeq(d, invoice_date_str)}
    IN  IF fd.status # "ok" THEN RateFailed(cfg, fd.status)
        ELSE IF invoice_date_str \in DOMAIN date_to_rate THEN
            LET rate == date_to_rate[invoice_date_str]
            IN  Returned([cfg EXCEPT
                   !.exchange_rate_note =
                       Note("exact", rate, invoice_date_str, NoDate, ""),
                   !.exchange_rate = rate])
        ELSE IF available_dates # {} THEN
            LET fallback_date == StrMax(available_dates)
                rate          == date_to_rate[fallback_date]
            IN  Returned([cfg EXCEPT
                   !.exchange_rate_note =
                       Note("before", rate, fallback_date, invoice_date_str, ""),
                   !.exchange_rate = rate])
        ELSE IF DOMAIN date_to_rate = {} THEN
            \* sorted([])[-1] raises IndexError inside the try
            RateFailed(cfg, "IndexError")
        ELSE
            LET latest_date == StrMax(DOMAIN date_to_rate)
                rate        == date_to_rate[latest_date]
            IN  Returned([cfg EXCEPT
                   !.exchange_rate_note =
                       Note("none_before", rate, latest_date, invoice_date_str, ""),
                   !.exchange_rate = rate])

---------------------------------------------------------------------------
(* Text wrapping: textwrap.wrap on a text given by its word lengths.       *)

\* One pass of the inner loop of TextWrapper._wrap_chunks: the words left
\* after one line is filled.  cur is the length of the line so far; a word
\* longer than the width is cut to fill what is left of the line.
RECURSIVE FillLine(_, _, _, _)
FillLine(ws, cur, first, width) ==
    IF ws = <<>> THEN <<>>
    ELSE LET c == IF first THEN cur ELSE cur + 1
         IN  IF ~first /\ c > width THEN ws
             ELSE IF c + ws[1] <= width
               THEN FillLine(Tail(ws), c + ws[1], FALSE, width)
             ELSE IF ws[1] > width /\ width - c > 0
               THEN <<ws[1] - (width - c)>> \o Tail(ws)
             ELSE ws

\* len(textwrap.wrap(text, width))
RECURSIVE WrapCount(_, _)
WrapCount(ws, width) ==
    IF ws = <<>> THEN 0
    ELSE 1 + WrapCount(FillLine(ws, 0, TRUE, width), width)

\* int(max_width / (font_size * 0.55)), max_width in 1/100 pt
WrapWidth(max_width, font_size) == max_width \div (font_size * 55)

---------------------------------------------------------------------------
(* create_invoice_pdf: the canvas.                                         *)

Pt(n) == n * 100          \* n points in 1/100 pt

PageW  == 59528           \* A4 width,  595.2756 pt
PageH  == 84189           \* A4 height, 841.8898 pt
margin == Pt(30)

Op(k, x, y, w, h, s) ==
    [k |-> k, x |-> x, y |-> y, w |-> w, h |-> h, s |-> s, d |-> <<>>]

OpD(k, x, y, w, h, s, d) ==
    [k |-> k, x |-> x, y |-> y, w |-> w, h |-> h, s |-> s, d |-> d]

\* canvas.Canvas(output_path, pagesize=A4); y = height - margin
NewCanvas ==
    [pages |-> <<>>, page |-> <<>>, y |-> PageH - margin, at |-> "begin",
     raised |-> "", saved |-> FALSE]

Draw(c, op) == [c EXCEPT !.page = Append(@, op)]

\* c.showPage()
ShowPage(c) == [c EXCEPT !.pages = Append(@, c.page), !.page = <<>>]

Raise(c, exc) == [c EXCEPT !.raised = exc, !.at = "raised"]

\* setStrokeColor(PRIMARY_BLUE); setLineWidth(2); rect(margin/2, ...)
Border(c) ==
    Draw(c, Op("rect", margin \div 2, margin \div 2,
               PageW - margin, PageH - margin, "PRIMARY_BLUE 2"))

\* the mutant of NewPage: a page break that does not redraw the frame
NewPageBare(c) == ShowPage(c)

\* lines 301-306, 320-324, 391-395: the page break of a section
NewPage(c) == Border(ShowPage(c))

\* the loop of draw_wrapped_text: line i at y - i * line_gap
RECURSIVE DrawLines(_, _, _, _, _, _)
DrawLines(c, n, x, y, line_gap, s) ==
    IF n = 0 THEN c
    ELSE DrawLines(Draw(c, Op("text", x, y, 0, 0, s)),
                   n - 1, x, y - line_gap, line_gap, s)

RECURSIVE AddDays(_, _)
AddDays(d, n) == IF n = 0 THEN d ELSE AddDays(NextDay(d), n - 1)

Labels(lang) ==
    IF lang = "fr"
    THEN [invoice |-> "Facture", company |-> "Société", bill_to |-> "Client",
          bank_details |-> "Coordonnées bancaires",
          vat_note |-> <<3, 3, 10, 1, 4, 5, 2, 4, 7, 3, 7>>,
          account_holder |-> <<9, 2, 7>>, routing_number |-> <<4, 2, 7, 6>>,
          account_number |-> <<6, 2, 7>>, account_type |-> <<4, 2, 7>>,
          bank |-> <<7>>, bank_address |-> <<7, 2, 2, 7>>]
    ELSE [invoice |-> "Invoice", company |-> "Company", bill_to |-> "Bill to",
          bank_details |-> "Bank Account Details",
          vat_note |-> <<3, 3, 10, 1, 4, 5, 2, 3, 6, 3, 5>>,
          account_holder |-> <<7, 7>>, routing_number |-> <<7, 6, 6>>,
          account_number |-> <<7, 7>>, account_type |-> <<7, 5>>,
          bank |-> <<5>>, bank_address |-> <<4, 8>>]

\* lines 108-216: canvas, frame, header, invoice info block
PdfBegin(a) ==
    LET c0     == Border(NewCanvas)
        y1     == c0.y - Pt(20)
        c1     == Draw(c0, Op("text", margin, y1, 0, 0, Labels(a.lang).invoice))
        y2     == y1 - Pt(32)
        block  == Pt(60)
        due_dt == AddDays(StrpDMY(a.emission_date), a.config.invoice.due_days)
        c2     == Draw(c1, Op("box", margin, y2 - block + Pt(8),
                              PageW - 2 * margin, block, "info"))
        c3     == Draw(c2, OpD("text", margin + Pt(12), y2 - Pt(12), 0, 0,
                               "invoice_id", a.invoice_id))
        c4     == Draw(c3, OpD("text", margin + Pt(12), y2 - Pt(30), 0, 0,
                               "emitted_at", a.emission_date))
        c5     == Draw(c4, OpD("text", margin + Pt(12), y2 - Pt(48), 0, 0,
                               "due_date", StrfDMY(due_dt)))
    IN  [c5 EXCEPT !.y = y2 - (block + Pt(10)), !.at = "parties"]

\* d[k]: the value, or KeyError
DictGet(d, k) ==
    IF k \in DOMAIN d THEN [ok |-> TRUE, v |-> d[k]]
    ELSE [ok |-> FALSE, v |-> <<>>]

\* d.get(k, '')
DictGetDefault(d, k) == IF k \in DOMAIN d THEN d[k] ELSE <<>>

\* lines 228-235: the seven company fields, each from the y the last left
RECURSIVE DrawCompany(_, _, _, _, _)
DrawCompany(c, company, i, y, box_width) ==
    IF i > Len(CompanyFields) THEN c
    ELSE LET f    == CompanyFields[i]
             got  == DictGet(company, f)
             size == IF f = "legal_name" THEN 11 ELSE 10
             text == IF f = "siret" THEN <<6>> \o got.v ELSE got.v
             n    == WrapCount(text, WrapWidth(box_width - 2 * Pt(18), size))
         IN  IF ~got.ok THEN Raise(c, "KeyError")
             ELSE DrawCompany(
                    DrawLines(c, n, margin + Pt(18), y, Pt(18), f),
                    company, i + 1, y - n * Pt(18), box_width)

\* lines 218-243: the issuer and recipient boxes
PdfParties(c, a) ==
    LET box_height   == Pt(190)
        box_width    == (PageW - 2 * margin - Pt(40)) \div 2
        line_gap     == Pt(18)
        text_y_start == c.y - Pt(22)
        c1  == Draw(c, Op("box", margin, c.y - box_height, box_width,
                          box_height, Labels(a.lang).company))
        c2  == DrawCompany(c1, a.config.company, 1, text_y_start - line_gap,
                           box_width)
        c3  == Draw(c2, Op("box", margin + box_width + Pt(40),
                           c.y - box_height, box_width, box_height,
                           Labels(a.lang).bill_to))
        x_r == margin + box_width + Pt(40) + Pt(18)
        nm  == DictGet(a.config.receiver, "name")
        n1  == WrapCount(nm.v, WrapWidth(box_width - 2 * Pt(18), 11))
        c4  == DrawLines(c3, n1, x_r, text_y_start - line_gap, line_gap, "name")
        ad  == DictGet(a.config.receiver, "address")
        n2  == WrapCount(ad.v, WrapWidth(box_width - 2 * Pt(18), 10))
        c5  == DrawLines(c4, n2, x_r, text_y_start - line_gap - n1 * line_gap,
                         line_gap, "address")
    IN  IF c2.raised # "" THEN c2
        ELSE IF ~nm.ok THEN Raise(c3, "KeyError")
        ELSE IF ~ad.ok THEN Raise(c4, "KeyError")
        ELSE [c5 EXCEPT !.y = c.y - (box_height + Pt(30)), !.at = "table"]

\* wrap_table_cell(...).count('\n') + 1
DescLines(desc) ==
    LET n == WrapCount(desc, WrapWidth(Pt(120), 8)) IN IF n = 0 THEN 1 ELSE n

\* lines 271-275: the header row and one row per service, [i, h]
RowHeights(services) ==
    <<[i |-> 0, h |-> Pt(20)]>> \o
    [i \in 1..Len(services) |->
        [i |-> i, h |-> DescLines(services[i].description) * Pt(8 + 3) + Pt(10)]]

RECURSIVE SumH(_)
SumH(rows) == IF rows = <<>> THEN 0 ELSE rows[1].h + SumH(Tail(rows))

\* Table._getFirstPossibleSplitRowPosition: the leading rows that fit
RECURSIVE SplitRow(_, _, _)
SplitRow(rows, h, availHeight) ==
    IF rows = <<>> \/ h + rows[1].h > availHeight THEN 0
    ELSE 1 + SplitRow(Tail(rows), h + rows[1].h, availHeight)

\* the mutant of TableSplit: the table is never split
TableSplitWhole(rows, availHeight) == <<rows>>

\* Table.split (reportlab, repeatRows = 0): no part when not even the first
\* row fits, the table itself when it all fits, else the rows that fit and
\* one second table with all the rest
TableSplit(rows, availHeight) ==
    LET n == SplitRow(rows, 0, availHeight)
    IN  IF n <= 0 THEN <<>>
        ELSE IF n = Len(rows) THEN <<rows>>
        ELSE <<SubSeq(rows, 1, n), SubSeq(rows, n + 1, Len(rows))>>

\* lines 299-309: the parts in order; c.y is table_y
RECURSIVE DrawParts(_, _, _)
DrawParts(c, parts, idx) ==
    IF idx > Len(parts) THEN c
    ELSE LET c1 == IF idx > 1
                     THEN [NewPage(c) EXCEPT !.y = PageH - margin]
                     ELSE c
             ht == SumH(parts[idx])
             c2 == Draw(c1, OpD("table", margin, c1.y - ht, 0, ht, "table",
                                parts[idx]))
         IN  DrawParts([c2 EXCEPT !.y = c1.y - ht], parts, idx + 1)

\* lines 245-310: the line-item table
PdfTable(c, a) ==
    LET rows             == RowHeights(a.config.services)
        available_height == c.y - (margin + Pt(200))
        table_parts      == TableSplit(rows, available_height)
        c1               == DrawParts(c, table_parts, 1)
    IN  [c1 EXCEPT !.y = c1.y - Pt(32), !.at = "summary"]

\* str(e) of the exception the fetch raised
ErrWords(exc) ==
    CASE exc = "ConnectionError" ->
           <<45, 10, 3, 7, 8, 4, 4, 39, 7, 2, 56, 6, 2, 16, 6, 2, 7, 19, 7,
             3, 9, 7, 2, 4, 14>>
      [] exc = "HTTPError"  -> <<3, 6, 6, 7, 11, 3, 4, 64>>
      [] exc = "ParseError" -> <<6, 6, 4, 2, 6, 1>>
      [] exc = "IndexError" -> <<4, 5, 3, 2, 5>>
      [] OTHER -> <<>>

\* the words of config['exchange_rate_note'] (lines 60, 69, 76, 80)
NoteWords(note) ==
    LET applied == <<7, 8, 5, 7, 9, 9, 2, 3, 3, 3, 10>>
    IN  CASE note.kind = "exact"  -> applied
          [] note.kind = "before" -> applied \o <<7, 9, 6, 7, 4, 11>>
          [] note.kind = "none_before" ->
                applied \o <<3, 4, 9, 3, 2, 6, 7, 4, 11>>
          [] note.kind = "failed" ->
                <<5, 3, 5, 8, 4, 4, 4>> \o ErrWords(note.err)
          [] OTHER -> <<>>

\* the mutant of FrenchNoteWords: a French note three times as long as the
\* configured one
FrenchNoteWordsLong(note) ==
    NoteWords(note) \o NoteWords(note) \o NoteWords(note)

\* lines 178-185: the French note when the regular expression matches,
\* which it does on the three "Applied exchange rate" notes
FrenchNoteWords(note) ==
    IF note.kind \in {"exact", "before", "none_before"}
    THEN <<4, 2, 6, 8, 1, 7, 9, 5, 2, 3, 4, 2, 10>>
    ELSE NoteWords(note)

\* lines 330-374: the five labelled lines, 16 pt apart
RECURSIVE DrawLabelled(_, _, _)
DrawLabelled(c, keys, text_y) ==
    IF keys = <<>> THEN c
    ELSE DrawLabelled(
           Draw(Draw(c, Op("text", margin + Pt(18), text_y, 0, 0, keys[1])),
                Op("text", margin + Pt(120), text_y, 0, 0, "value")),
           Tail(keys), text_y - Pt(16))

\* lines 312-386: the payment and tax summary box
PdfSummary(c, a) ==
    LET cfg     == a.config
        nw      == WrapWidth(PageW - 2 * margin - Pt(36), 10)
        n_lines == 5 + WrapCount(cfg.vat_note, nw)
                     + WrapCount(NoteWords(cfg.exchange_rate_note), nw)
        section_height == n_lines * Pt(16) + Pt(24)
        sy0     == c.y - section_height + Pt(20)
        break   == sy0 < margin + Pt(100)
        c1      == IF break THEN NewPage(c) ELSE c
        y1      == IF break THEN PageH - margin - Pt(32) ELSE c.y
        section_y == y1 - section_height + Pt(20)
        c2      == Draw(c1, Op("box", margin, section_y, PageW - 2 * margin,
                               section_height, "summary"))
        text_y  == section_y + section_height - Pt(16)
        c3      == DrawLabelled(c2, <<"payment_term", "payment_methods",
                                      "amount_excl_tax", "vat",
                                      "amount_incl_tax">>, text_y)
        ty1     == text_y - 4 * Pt(16) - Pt(20)
        vat_note  == IF a.lang = "fr" THEN Labels(a.lang).vat_note
                     ELSE cfg.vat_note
        exch_note == IF a.lang = "fr"
                     THEN FrenchNoteWords(cfg.exchange_rate_note)
                     ELSE NoteWords(cfg.exchange_rate_note)
        nv      == WrapCount(vat_note, nw)
        ne      == WrapCount(exch_note, nw)
        c4      == DrawLines(c3, nv, margin + Pt(18), ty1, Pt(14), "vat_note")
        c5      == DrawLines(c4, ne, margin + Pt(18), ty1 - nv * Pt(14),
                             Pt(14), "exchange_rate_note")
    IN  [c5 EXCEPT !.y = section_y - Pt(32), !.at = "bank"]

\* lines 403-408: the six bank fields, 11 pt apart
RECURSIVE DrawBank(_, _, _, _, _)
DrawBank(c, bank, lang, i, y) ==
    IF i > Len(BankFields) THEN [c EXCEPT !.y = y]
    ELSE LET f == BankFields[i]
             n == WrapCount(Labels(lang)[f] \o DictGetDefault(bank, f),
                            WrapWidth(PageW - 2 * margin, 9))
         IN  DrawBank(DrawLines(c, n, margin, y, Pt(11), f),
                      bank, lang, i + 1, y - n * Pt(11))

\* lines 388-410: the bank account details
PdfBank(c, a) ==
    LET break == c.y < margin + Pt(100)
        c1    == IF break THEN NewPage(c) ELSE c
        y1    == IF break THEN PageH - margin - Pt(32) ELSE c.y
        c2    == Draw(c1, Op("text", margin, y1, 0, 0,
                             Labels(a.lang).bank_details))
        c3    == DrawBank(c2, a.config.bank_details, a.lang, 1, y1 - Pt(14))
    IN  [c3 EXCEPT !.y = c3.y - Pt(20), !.at = "save"]

\* line 416, c.save(): the last page is closed and the file written, or
\* the write fails (a path that cannot be written)
PdfSave(c, writable) ==
    IF ~writable THEN Raise(c, "OSError")
    ELSE LET c1 == IF c.page # <<>> THEN ShowPage(c) ELSE c
         IN  [c1 EXCEPT !.saved = TRUE, !.at = "done"]

\* one section of create_invoice_pdf, by the position of the canvas
PdfStep(c, a) ==
    CASE c.at = "parties" -> PdfParties(c, a)
      [] c.at = "table"   -> PdfTable(c, a)
      [] c.at = "summary" -> PdfSummary(c, a)
      [] c.at = "bank"    -> PdfBank(c, a)
      [] OTHER            -> c

\* the sections in order, up to c.save() or the exception
RECURSIVE PdfRun(_, _)
PdfRun(c, a) ==
    IF c.at \in {"save", "raised"} THEN c
    ELSE PdfRun(PdfStep(c, a), a)

PdfArgs(cfg, invoice_id, output_path, emission_date, lang) ==
    [config |-> cfg, invoice_id |-> invoice_id, output_path |-> output_path,
     emission_date |-> emission_date, lang |-> lang]

\* create_invoice_pdf(config, invoice_id, output_path, emission_date, lang)
\* lines 108-410: everything drawn before c.save()
PdfDraw(a) == PdfRun(PdfBegin(a), a)

\* line 416, unless an exception ended the function before it
PdfFinish(c, writable) == IF c.at = "raised" THEN c ELSE PdfSave(c, writable)

create_invoice_pdf(a, writable) == PdfFinish(PdfDraw(a), writable)

---------------------------------------------------------------------------
(* SpecRate and SpecId: one call of the function on each bounded input.    *)

Rates == {10400, 10500}

\* every series over the days of the model, the empty one included
AllSeries ==
    UNION {[{StrfISO(d) : d \in S} -> Rates] : S \in SUBSET Days}

AllFeeds ==
    {Feed(st, <<>>) : st \in FeedFailures} \cup {Feed("ok", s) : s \in AllSeries}

NoCall == [fn |-> "none"]

\* Initial values of the variables a specification does not use
MainIdle ==
    /\ disk = BaseConfig /\ config = BaseConfig /\ pc = "off"
    /\ today = Epoch /\ outdir = <<>> /\ fetches = 0
    /\ invoice = <<>> /\ error = <<>> /\ printed = <<>> /\ runs = 0
    /\ hist = <<>>

PdfIdle == cv = <<>> /\ args = <<>>

InitRate ==
    /\ MainIdle /\ PdfIdle
    /\ \E d \in Days, fd \in AllFeeds :
          call = [fn |-> "rate", date |-> d, feed |-> fd, done |-> FALSE,
                  out |-> Returned(BaseConfig)]

RateCall ==
    /\ call.fn = "rate" /\ ~call.done
    /\ call' = [call EXCEPT
                  !.done = TRUE,
                  !.out  = fetch_and_update_exchange_rate(
                               BaseConfig, StrfDMY(call.date), call.feed)]
    /\ UNCHANGED <<mainVars, pdfVars>>

NextRate == RateCall

SpecRate == InitRate /\ [][NextRate]_vars

InitId ==
    /\ MainIdle /\ PdfIdle
    /\ \E d \in Days, n \in 0..MaxPrev :
          call = [fn |-> "id", date |-> d, last |-> n, done |-> FALSE,
                  out |-> [number |-> 0, id |-> <<>>]]

IdCall ==
    /\ call.fn = "id" /\ ~call.done
    /\ call' = [call EXCEPT !.done = TRUE,
                            !.out  = NextId(call.date, call.last)]
    /\ UNCHANGED <<mainVars, pdfVars>>

NextIdStep == IdCall

SpecId == InitId /\ [][NextIdStep]_vars

---------------------------------------------------------------------------
(* C4: rate selection.                                                     *)

\* position of a calendar day on the time line (days since Epoch)
Ord(iso) == CHOOSE i \in 0..(MaxDay + 400) : StrfISO(DayN(i)) = iso

RateDone == call.fn = "rate" /\ call.done /\ call.feed.status = "ok"
                /\ DOMAIN call.feed.series # {}

\* C4: for every non-empty series and every invoice date D, the function
\* selects the rate published for D (exact note) when D is in the series;
\* otherwise the rate of the latest date strictly before D, the note
\* recording that date and D; otherwise, when no date is at or before D,
\* the rate of the most recent date of the series, the note saying that no
\* rate was available for or before D.
C4_RateSelection ==
    RateDone =>
      LET S    == call.feed.series
          D    == StrfISO(call.date)
          past == {d \in DOMAIN S : Ord(d) < Ord(D)}
          n    == call.out.config.exchange_rate_note
          r    == call.out.config.exchange_rate
      IN  /\ call.out.raised = ""
          /\ D \in DOMAIN S =>
                r = S[D] /\ n = Note("exact", S[D], D, NoDate, "")
          /\ D \notin DOMAIN S /\ past # {} =>
                \E d \in past :
                   /\ \A e \in past : Ord(e) <= Ord(d)
                   /\ r = S[d]
                   /\ n = Note("before", S[d], d, D, "")
          /\ D \notin DOMAIN S /\ past = {} =>
                \E d \in DOMAIN S :
                   /\ \A e \in DOMAIN S : Ord(e) <= Ord(d)
                   /\ r = S[d]
                   /\ n = Note("none_before", S[d], d, D, "")

\* a series with two published dates before D and none on D, and rates
\* that tell the two apart
C4_Witness ==
    /\ RateDone
    /\ call.out.config.exchange_rate_note.kind = "before"
    /\ Cardinality({d \in DOMAIN call.feed.series :
                      Ord(d) < Ord(StrfISO(call.date))}) >= 2
    /\ Cardinality({call.feed.series[d] : d \in DOMAIN call.feed.series}) = 2

---------------------------------------------------------------------------
(* C7: the invoice identifier.                                             *)

RECURSIVE ValueOf(_)
ValueOf(ds) ==
    IF ds = <<>> THEN 0
    ELSE 10 * ValueOf(SubSeq(ds, 1, Len(ds) - 1)) + ds[Len(ds)]

\* C7: the number used is previous + 1, and the identifier is the emission
\* date as day-month-year followed by that number in decimal, zero-padded
\* to (at least) two digits, for every non-negative previous number.
C7_InvoiceId ==
    (call.fn = "id" /\ call.done) =>
      LET id == call.out.id
      IN  /\ call.out.number = call.last + 1
          /\ id.prefix = "N° #"
          /\ id.date = <<call.date.day, call.date.month, call.date.year>>
          /\ \A i \in 1..Len(id.num) : id.num[i] \in 0..9
          /\ ValueOf(id.num) = call.last + 1
          /\ Len(id.num) >= 2
          /\ (call.last + 1 < 100 => Len(id.num) = 2)
          /\ (Len(id.num) > 2 => id.num[1] # 0)

\* a one-digit number that is padded, and a three-digit number
C7_Witness ==
    /\ call.fn = "id" /\ call.done
    /\ call.last = 8
    /\ call.out.id.num = <<0, 9>>

---------------------------------------------------------------------------
(* SpecPdf: create_invoice_pdf on every bounded input, section by section. *)

MaxServices == 2    \* longest services list SpecPdf lays out

\* descriptions of 1, 13, 16 and 21 wrapped lines in the 27-character cell
Descriptions == {Words(3, 8), Words(26, 9), Words(32, 9), Words(42, 9)}

ServiceLists ==
    UNION {[1..n -> {Service(d, 1, 1000) : d \in Descriptions}] :
             n \in 0..MaxServices}

\* the document with no field missing, and with each single company or
\* bank field missing
MissingOne(cfg) ==
    {cfg}
    \cup {[cfg EXCEPT !.company = Without(@, f)] : f \in Range(CompanyFields)}
    \cup {[cfg EXCEPT !.bank_details = Without(@, f)] : f \in Range(BankFields)}

VatNotes == {<<>>, BaseConfig.vat_note, Words(30, 8)}

\* notes a fetch leaves in the config
FetchedNotes ==
    {Note("exact", 10400, StrfISO(Epoch), NoDate, ""),
     Note("before", 10400, StrfISO(Epoch), StrfISO(NextDay(Epoch)), ""),
     Note("none_before", 10400, StrfISO(NextDay(Epoch)), StrfISO(Epoch), ""),
     Note("failed", NoRate, NoDate, NoDate, "ConnectionError")}

PdfConfigs ==
    UNION {MissingOne([BaseConfig EXCEPT !.services = sv, !.vat_note = vn,
                                         !.exchange_rate_note = nt]) :
             sv \in ServiceLists, vn \in VatNotes, nt \in FetchedNotes}

InitPdf ==
    /\ MainIdle
    /\ call = NoCall
    /\ cv = [at |-> "new"]
    /\ \E cfg \in PdfConfigs, lang \in {"en", "fr"} :
          args = PdfArgs(cfg, NextId(Epoch, 0).id, "out.pdf", StrfDMY(Epoch),
                         lang)

Begin ==
    /\ cv.at = "new"
    /\ cv' = PdfBegin(args)
    /\ UNCHANGED <<mainVars, args, call>>

Parties ==
    /\ cv.at = "parties"
    /\ cv' = PdfParties(cv, args)
    /\ UNCHANGED <<mainVars, args, call>>

TableSection ==
    /\ cv.at = "table"
    /\ cv' = PdfTable(cv, args)
    /\ UNCHANGED <<mainVars, args, call>>

Summary ==
    /\ cv.at = "summary"
    /\ cv' = PdfSummary(cv, args)
    /\ UNCHANGED <<mainVars, args, call>>

Bank ==
    /\ cv.at = "bank"
    /\ cv' = PdfBank(cv, args)
    /\ UNCHANGED <<mainVars, args, call>>

Save ==
    /\ cv.at = "save"
    /\ \E writable \in BOOLEAN : cv' = PdfSave(cv, writable)
    /\ UNCHANGED <<mainVars, args, call>>

NextPdf == Begin \/ Parties \/ TableSection \/ Summary \/ Bank \/ Save

SpecPdf == InitPdf /\ [][NextPdf]_vars

---------------------------------------------------------------------------
(* C9: a missing company or bank field.                                    *)

MissingFields(cfg) ==
    {f \in Range(CompanyFields) : f \notin DOMAIN cfg.company}
    \cup {f \in Range(BankFields) : f \notin DOMAIN cfg.bank_details}

\* C9: when a single company field or a single bank_details field is
\* missing, create_invoice_pdf does not raise: the only exception that can
\* end it is the failure to write the file.
C9_MissingFieldSoft ==
    (cv.at = "raised" /\ Cardinality(MissingFields(args.config)) = 1)
        => cv.raised = "OSError"

---------------------------------------------------------------------------
(* C10: the border frame.                                                  *)

Frame == Op("rect", 1500, 1500, 56528, 81189, "PRIMARY_BLUE 2")

\* C10: every page carries the frame: it is the first thing drawn on the
\* first page and on every page begun by a page break, whichever section
\* broke the page, and it is the same rectangle each time.
C10_FrameOnEveryPage ==
    cv.at # "new" =>
      /\ \A i \in 1..Len(cv.pages) :
            /\ cv.pages[i] # <<>>
            /\ cv.pages[i][1] = Frame
            /\ \A j \in 2..Len(cv.pages[i]) : cv.pages[i][j].k # "rect"
      /\ cv.at # "done" => cv.page # <<>> /\ cv.page[1] = Frame
      /\ cv.at = "done" => cv.page = <<>> /\ Len(cv.pages) >= 1

\* a saved document whose table continued on a second page and whose
\* summary or bank details began a third
C10_Witness ==
    /\ cv.at = "done"
    /\ Len(cv.pages) >= 3
    /\ \E j \in 1..Len(cv.pages[2]) : cv.pages[2][j].k = "table"
    /\ \A j \in 1..Len(cv.pages[3]) : cv.pages[3][j].k # "table"

---------------------------------------------------------------------------
(* main(): money, file names, persistence.                                 *)

\* round(x, 2) of a float that is no exact tie, floored: the mutant
RoundDown2(x) == x \div 10

\* round(x, 2) and the ":,.2f" format: mills to the nearest cent, an exact
\* tie to the even cent
Round2(x) ==
    LET q == x \div 10
        r == x % 10
    IN  IF r < 5 THEN q
        ELSE IF r > 5 THEN q + 1
        ELSE IF q % 2 = 0 THEN q ELSE q + 1

\* sum(amount_usd * quantity for service in services), line 429
RECURSIVE TotalServices(_)
TotalServices(services) ==
    IF services = <<>> THEN 0
    ELSE services[1].amount_usd * services[1].quantity
           + TotalServices(Tail(services))

\* the ValueError of line 431 and the two amounts its message holds
ReconciliationError(cfg) ==
    [kind   |-> "ValueError",
     sum    |-> Round2(TotalServices(cfg.services)),
     amount |-> Round2(cfg.amount_excl_tax)]

\* the condition of line 430 negated: the sums reconcile
Reconciles(cfg) ==
    Round2(TotalServices(cfg.services)) = Round2(cfg.amount_excl_tax)

\* line 444; Python's index i is position i + 1 here
meses_en == <<"", "January", "February", "March", "April", "May", "June",
              "July", "August", "September", "October", "November",
              "December">>

\* lines 443-453: f"{nome} - {mes_en}.pdf" and f"{nome} - {mes_en} fr.pdf"
\* under PDF_OUTPUT_DIR
PdfPath(cfg, tday, lang) ==
    LET nome   == cfg.output_name
        mes_en == meses_en[(tday.month - 1) + 1]
    IN  [dir |-> "invoices", nome |-> nome, mes_en |-> mes_en,
         suffix |-> IF lang = "fr" THEN " fr.pdf" ELSE ".pdf"]

\* line 458 left out: the mutant of WithNumber
WithNumberStale(cfg, invoice_number) == cfg

\* line 458: config['invoice']['last_invoice_number'] = invoice_number
WithNumber(cfg, invoice_number) ==
    [cfg EXCEPT !.invoice.last_invoice_number = invoice_number]

\* write_config(config): config.json holds the whole document
write_config(cfg) == [readable |-> TRUE, doc |-> cfg]

---------------------------------------------------------------------------
(* Spec: sequential runs of main().                                        *)

NoConfig  == [loaded |-> FALSE]
NoInvoice == [assigned |-> FALSE]
NoError   == [kind |-> ""]
NoDay     == [year |-> 0, month |-> 0, day |-> 0]

RunDays == {DayN(i) : i \in 0..MaxRunDay}

OrdDay(d) == CHOOSE i \in 0..MaxRunDay : DayN(i) = d

\* line items and stated totals around one cent boundary; every amount is
\* an even number of mills, so that no sum is an exact tie
MainServices ==
    {<<Service(Words(3, 8), 1, 1004)>>,
     <<Service(Words(3, 8), 2, 502), Service(Words(26, 9), 1, 2)>>}

MainAmounts == {1004, 1006, 1014, 1020}

\* a document with every company and bank field, one without a company
\* field, one without a bank field
MainMissing(cfg) ==
    {cfg,
     [cfg EXCEPT !.company = Without(@, "legal_name")],
     [cfg EXCEPT !.bank_details = Without(@, "account_holder")]}

MainConfigs ==
    {[BaseConfig EXCEPT !.services = sv, !.amount_excl_tax = am,
                        !.amount_incl_tax = am] :
       sv \in MainServices, am \in MainAmounts}
    \cup MainMissing(BaseConfig)
    \cup {[BaseConfig EXCEPT !.invoice.last_invoice_number = 99]}

\* what the ECB answers in a run
MainFeeds ==
    {Feed(st, <<>>) : st \in FeedFailures}
    \cup {Feed("ok", <<>>)}
    \cup {Feed("ok", [k \in {StrfISO(DayN(1))} |-> 10400])}

Init ==
    /\ PdfIdle
    /\ call = NoCall
    /\ \/ \E cfg \in MainConfigs : disk = [readable |-> TRUE, doc |-> cfg]
       \/ disk = [readable |-> FALSE, doc |-> BaseConfig]
    /\ config = NoConfig
    /\ pc = "idle"
    /\ today = NoDay
    /\ outdir = [exists |-> FALSE, files |-> <<>>]
    /\ fetches = 0
    /\ invoice = NoInvoice
    /\ error = NoError
    /\ printed = <<>>
    /\ runs = 0
    /\ hist = [disk0 |-> disk, outdir0 |-> outdir, clock |-> Epoch,
               first |-> disk, successes |-> 0, issued |-> <<>>,
               rendered |-> {}, feed |-> Feed("none", <<>>)]

\* an exception leaves main(): the run ends
Abort(e) == pc' = "aborted" /\ error' = e

\* line 426: a new run reads config.json
ReadConfig ==
    /\ pc \in {"idle", "done", "aborted"}
    /\ runs < MaxRuns
    /\ runs' = runs + 1
    /\ hist' = [hist EXCEPT !.disk0 = disk, !.outdir0 = outdir,
                            !.rendered = {}, !.feed = Feed("none", <<>>)]
    /\ today' = NoDay /\ fetches' = 0 /\ invoice' = NoInvoice
    /\ printed' = <<>>
    /\ IF disk.readable
         THEN config' = disk.doc /\ pc' = "reconcile" /\ error' = NoError
         ELSE config' = NoConfig /\ Abort([kind |-> "ConfigLoadError"])
    /\ UNCHANGED <<disk, outdir, pdfVars, call>>

\* the mutant of Reconcile: the check made after lines 433-440
ReconcileLate ==
    /\ pc = "reconcile"
    /\ IF Reconciles(config)
         THEN pc' = "number" /\ UNCHANGED <<error, outdir, fetches>>
         ELSE /\ Abort(ReconciliationError(config))
              /\ fetches' = fetches + 1
              /\ outdir' = [outdir EXCEPT !.exists = TRUE]
    /\ UNCHANGED <<disk, config, today, invoice, printed, runs, hist,
                   pdfVars, call>>

\* lines 428-431: the reconciliation check
Reconcile ==
    /\ pc = "reconcile"
    /\ IF Reconciles(config)
         THEN pc' = "number" /\ UNCHANGED error
         ELSE Abort(ReconciliationError(config))
    /\ UNCHANGED <<disk, config, today, outdir, fetches, invoice, printed,
                   runs, hist, pdfVars, call>>

\* lines 433-436: the number and the identifier, on the day of the run
Number ==
    /\ pc = "number"
    /\ \E d \in RunDays :
          /\ OrdDay(d) >= OrdDay(hist.clock)
          /\ today' = d
          /\ hist' = [hist EXCEPT !.clock = d]
          /\ invoice' = NextId(d, config.invoice.last_invoice_number)
    /\ pc' = "fetch"
    /\ UNCHANGED <<disk, config, outdir, fetches, error, printed, runs,
                   pdfVars, call>>

\* line 438: the exchange rate, whatever the feed answers
Fetch ==
    /\ pc = "fetch"
    /\ \E fd \in MainFeeds :
          LET r == fetch_and_update_exchange_rate(config, StrfDMY(today), fd)
          IN  /\ hist' = [hist EXCEPT !.feed = fd]
              /\ IF r.raised = ""
                   THEN config' = r.config /\ pc' = "mkdir" /\ UNCHANGED error
                   ELSE Abort([kind |-> r.raised]) /\ UNCHANGED config
    /\ fetches' = fetches + 1
    /\ UNCHANGED <<disk, today, outdir, invoice, printed, runs, pdfVars, call>>

\* line 440: os.makedirs(PDF_OUTPUT_DIR, exist_ok=True)
MakeDirs ==
    /\ pc = "mkdir"
    /\ \/ /\ outdir' = [outdir EXCEPT !.exists = TRUE]
          /\ pc' = "render_en" /\ UNCHANGED error
       \/ /\ ~outdir.exists
          /\ Abort([kind |-> "OSError"]) /\ UNCHANGED outdir
    /\ UNCHANGED <<disk, config, today, fetches, invoice, printed, runs, hist,
                   pdfVars, call>>

\* what a saved canvas leaves in the file
PdfFile(c, a) ==
    [invoice_id |-> a.invoice_id, lang |-> a.lang, pages |-> Len(c.pages),
     note |-> a.config.exchange_rate_note.kind]

\* lines 448-450 and 452-454: one call of create_invoice_pdf, which ends
\* with the file written or with an exception
Render(lang, next) ==
    /\ LET path == PdfPath(config, today, lang)
           a    == PdfArgs(config, invoice.id, path, StrfDMY(today), lang)
           drawn == PdfDraw(a)
       IN  \E c \in {PdfFinish(drawn, w) : w \in BOOLEAN} :
              IF c.raised = ""
                THEN /\ outdir' = [outdir EXCEPT
                           !.files = [p \in DOMAIN @ \cup {path} |->
                                        IF p = path THEN PdfFile(c, a) ELSE @[p]]]
                     /\ hist' = [hist EXCEPT !.rendered = @ \cup {lang}]
                     /\ pc' = next /\ UNCHANGED error
                ELSE Abort([kind |-> c.raised]) /\ UNCHANGED <<outdir, hist>>
    /\ UNCHANGED <<config, today, fetches, invoice, printed, runs, pdfVars,
                   call>>

\* lines 447-450: the English PDF
RenderEn == pc = "render_en" /\ Render("en", "render_fr") /\ UNCHANGED disk

\* the mutant of RenderFr: write_config called before the French render
RenderFrAfterWrite ==
    /\ pc = "render_fr"
    /\ Render("fr", "finish")
    /\ disk' = write_config(WithNumber(config, invoice.number))

\* lines 451-454: the French PDF
RenderFr == pc = "render_fr" /\ Render("fr", "finish") /\ UNCHANGED disk

\* lines 455-459: the two paths are printed and the configuration saved,
\* unless config.json cannot be opened for writing
Finish ==
    /\ pc = "finish"
    /\ printed' = <<PdfPath(config, today, "en"), PdfPath(config, today, "fr")>>
    /\ config' = WithNumber(config, invoice.number)
    /\ \/ /\ disk' = write_config(config')
          /\ hist' = [hist EXCEPT !.successes = @ + 1,
                                  !.issued = Append(@, invoice.id)]
          /\ pc' = "done" /\ UNCHANGED error
       \/ /\ Abort([kind |-> "OSError"])
          /\ UNCHANGED <<disk, hist>>
    /\ UNCHANGED <<today, outdir, fetches, invoice, runs, pdfVars, call>>

Next ==
    \/ ReadConfig
    \/ Reconcile
    \/ Number
    \/ Fetch
    \/ MakeDirs
    \/ RenderEn
    \/ RenderFr
    \/ Finish

Spec == Init /\ [][Next]_vars

---------------------------------------------------------------------------
(* Claims about main().                                                    *)

\* C1: config.json is written only after both renders have returned, and
\* a run that ends with a fatal error leaves the file as it was when the
\* run started.
C1_WriteAfterRenders ==
    /\ disk # hist.disk0 =>
          /\ pc = "done"
          /\ hist.rendered = {"en", "fr"}
          /\ \A lang \in {"en", "fr"} :
                PdfPath(config, today, lang) \in DOMAIN outdir.files
    /\ pc = "aborted" =>
          /\ disk = hist.disk0
          /\ disk.doc.invoice.last_invoice_number =
                hist.disk0.doc.invoice.last_invoice_number
          /\ disk.doc.exchange_rate = hist.disk0.doc.exchange_rate
          /\ disk.doc.exchange_rate_note = hist.disk0.doc.exchange_rate_note

\* the French render fails after the English PDF was written and a rate
\* was resolved in memory
C1_Witness ==
    /\ pc = "aborted"
    /\ error.kind = "OSError"
    /\ hist.rendered = {"en"}
    /\ config.exchange_rate # NoRate
    /\ disk.doc.exchange_rate = NoRate

\* the reconciliation check of this run has been made
Reconciled == pc \notin {"idle", "reconcile"} /\ error.kind # "ConfigLoadError"

ReconcileFailed == pc = "aborted" /\ error.kind = "ValueError"

Abs(x) == IF x < 0 THEN -x ELSE x

\* the cent nearest to an amount in mills that is no exact tie
NearestCent(x) ==
    CHOOSE c \in 0..(x \div 10 + 1) : 10 * c - 5 < x /\ x < 10 * c + 5

\* C2 as stated: the check passes whenever the sum of the line items is
\* within 0.01 of amount_excl_tax, and fails otherwise with an error that
\* names both values.
C2_WithinOneCent ==
    Reconciled =>
      LET sum == TotalServices(config.services)
          amt == config.amount_excl_tax
      IN  /\ Abs(sum - amt) <= 10 => ~ReconcileFailed
          /\ Abs(sum - amt) > 10 =>
                /\ ReconcileFailed
                /\ error.sum = NearestCent(sum)
                /\ error.amount = NearestCent(amt)

\* C2 amended: the check passes exactly when the sum and amount_excl_tax
\* are the same number of cents once each is rounded to two decimals, so
\* two values that pass differ by at most 0.01; otherwise the run fails
\* with an error that names both values to two decimals.
C2_SameCents ==
    Reconciled =>
      LET sum == TotalServices(config.services)
          amt == config.amount_excl_tax
      IN  /\ ~ReconcileFailed <=> NearestCent(sum) = NearestCent(amt)
          /\ ~ReconcileFailed => Abs(sum - amt) <= 10
          /\ ReconcileFailed =>
                /\ error.sum = NearestCent(sum)
                /\ error.amount = NearestCent(amt)
                /\ error.sum # error.amount

\* a sum and a stated total that differ and pass: 1.006 against 1.014
C2_Witness ==
    /\ pc = "number"
    /\ TotalServices(config.services) = 1006
    /\ config.amount_excl_tax = 1014

\* C3: a run that ends at the reconciliation check has had no side effect:
\* the output directory and its files are as they were, no request was
\* sent, no invoice number exists in memory, and the configuration in
\* memory and on disk is the one read.
C3_AbortBeforeSideEffects ==
    ReconcileFailed =>
      /\ outdir = hist.outdir0
      /\ fetches = 0
      /\ invoice = NoInvoice
      /\ today = NoDay
      /\ config = hist.disk0.doc
      /\ disk = hist.disk0
      /\ printed = <<>>

\* a mismatch of two mills across a cent boundary ends the run
C3_Witness ==
    /\ ReconcileFailed
    /\ ~outdir.exists
    /\ Abs(TotalServices(config.services) - config.amount_excl_tax) = 2

\* the fetch of this run met a failure: an exception of the request or of
\* the parse, or a feed without any USD rate
FetchFailure ==
    IF hist.feed.status \in FeedFailures THEN hist.feed.status
    ELSE IF hist.feed.status = "ok" /\ DOMAIN hist.feed.series = {}
      THEN "IndexError"
    ELSE ""

\* C5: a failed exchange-rate resolution never ends the run: the function
\* returns with exchange_rate None and a note that explains the failure,
\* no run ends with the exception of the fetch, and the run that then
\* reaches its end has both PDFs written and the incremented number saved.
C5_RateFailureSoft ==
    /\ pc = "aborted" =>
          error.kind \notin FeedFailures \cup {"IndexError"}
    /\ FetchFailure # "" =>
          /\ pc \in {"mkdir", "render_en", "render_fr", "finish", "done",
                     "aborted"}
          /\ config.exchange_rate = NoRate
          /\ config.exchange_rate_note =
                Note("failed", NoRate, NoDate, NoDate, FetchFailure)
          /\ pc = "aborted" => error.kind \in {"OSError", "KeyError"}
          /\ pc = "done" =>
                /\ \A lang \in {"en", "fr"} :
                      /\ PdfPath(config, today, lang) \in DOMAIN outdir.files
                      /\ outdir.files[PdfPath(config, today, lang)].invoice_id
                            = invoice.id
                      /\ outdir.files[PdfPath(config, today, lang)].note
                            = "failed"
                /\ disk.doc.invoice.last_invoice_number
                      = hist.disk0.doc.invoice.last_invoice_number + 1
                /\ disk.doc.exchange_rate = NoRate

\* a run that got a feed without any USD rate and reached its end
C5_Witness ==
    /\ pc = "done"
    /\ hist.feed = Feed("ok", <<>>)
    /\ disk.doc.exchange_rate_note.err = "IndexError"

EnglishMonth(m) ==
    <<"January", "February", "March", "April", "May", "June", "July",
      "August", "September", "October", "November", "December">>[m]

\* C8: both PDF file names of a run hold the English name of the month of
\* the run date together with the configured output_name, and they differ.
C8_CurrentMonthInNames ==
    pc = "done" =>
      /\ \A i \in 1..2 :
            /\ printed[i] \in DOMAIN outdir.files
            /\ printed[i].nome = config.output_name
            /\ printed[i].mes_en = EnglishMonth(today.month)
      /\ printed[1] # printed[2]


---------------------------------------------------------------------------
(* C11: the line-item table across pages.                                  *)

\* the pages drawn so far, the open one last
AllPages(c) == IF c.page = <<>> THEN c.pages ELSE Append(c.pages, c.page)

\* lines 111, 199, 202, 216, 243: y where the table starts,
\* height - margin - 20 - 32 - (60 + 10) - (190 + 30)
TableTop ==
    PageH - margin - Pt(20) - Pt(32) - (Pt(60) + Pt(10)) - (Pt(190) + Pt(30))

IsTable(op) == op.k = "table"

\* the rows of the table segments of the pages from p on, in drawing order
RECURSIVE RowsFrom(_, _)
RowsFrom(pg, p) ==
    IF p > Len(pg) THEN <<>>
    ELSE LET segs == SelectSeq(pg[p], IsTable)
         IN  (IF segs = <<>> THEN <<>> ELSE segs[1].d) \o RowsFrom(pg, p + 1)

\* the pages that carry a table segment
SegmentPages(pg) == {p \in 1..Len(pg) : SelectSeq(pg[p], IsTable) # <<>>}

\* the table as the services list gives it: header 20, then per service
\* wrapped description lines * 11 + 10
CumulativeHeight(services) ==
    Pt(20) + SumH([i \in 1..Len(services) |->
                     [h |-> DescLines(services[i].description) * Pt(11)
                              + Pt(10)]])

TableOverflows(a) ==
    CumulativeHeight(a.config.services) > TableTop - (margin + Pt(200))

\* C11: when the cumulative height of the table (header and rows) exceeds
\* the height left on the first page, once the table section has run: the
\* rows 0..n are all drawn, once each and in order, over the segments; the
\* table takes more than one page, one segment a page on consecutive pages
\* from the first; and each continuation segment is the first thing drawn
\* after the frame on a new page, its top edge at height - margin.
C11_TablePagination ==
    (cv.at \in {"summary", "bank", "save", "done"} /\ TableOverflows(args)) =>
        LET pg   == AllPages(cv)
            segs == SegmentPages(pg)
            rows == RowsFrom(pg, 1)
        IN  /\ Len(rows) = Len(args.config.services) + 1
            /\ \A k \in 1..Len(rows) : rows[k].i = k - 1
            /\ Len(pg) > 1
            /\ Cardinality(segs) > 1
            /\ segs = 1..Cardinality(segs)
            /\ \A p \in segs :
                  /\ Len(SelectSeq(pg[p], IsTable)) = 1
                  /\ pg[p][1] = Frame
                  /\ p = 1 =>
                       LET t == SelectSeq(pg[p], IsTable)[1]
                       IN  t.y + t.h = TableTop
                  /\ p > 1 =>
                       /\ IsTable(pg[p][2])
                       /\ pg[p][2].y + pg[p][2].h = PageH - margin
                       /\ pg[p][2].x = margin

\* a saved document of two services whose first row alone is taller than
\* the height left on the first page: the header is the whole first segment
\* and both rows are on the second page
C11_Witness ==
    /\ cv.at = "done"
    /\ Len(args.config.services) = 2
    /\ DescLines(args.config.services[1].description) * Pt(11) + Pt(10)
         > TableTop - (margin + Pt(200))
    /\ SelectSeq(cv.pages[1], IsTable)[1].d = <<[i |-> 0, h |-> Pt(20)]>>
    /\ Len(cv.pages[2][2].d) = 2

---------------------------------------------------------------------------
(* C12: the payment and tax summary box.                                   *)

IsSummaryBox(op) == op.k = "box" /\ op.s = "summary"

\* the page that carries the summary box
SummaryPage(pg) ==
    CHOOSE p \in 1..Len(pg) : SelectSeq(pg[p], IsSummaryBox) # <<>>

\* position of the summary box in its page
SummaryAt(page) == CHOOSE j \in 1..Len(page) : IsSummaryBox(page[j])

SummaryKeys ==
    {"payment_term", "payment_methods", "amount_excl_tax", "vat",
     "amount_incl_tax", "value", "vat_note", "exchange_rate_note"}

\* the lines of the section: what is drawn after the box, on its page, up
\* to the bank account details
SummaryLines(page) ==
    LET b == SummaryAt(page)
    IN  {j \in (b + 1)..Len(page) :
           /\ page[j].k = "text"
           /\ page[j].s \in SummaryKeys
           /\ \A i \in (b + 1)..j : page[i].s \in SummaryKeys}

\* the notes the section renders in one language
RenderedNotes(a) ==
    IF a.lang = "fr"
    THEN <<Labels("fr").vat_note, FrenchNoteWords(a.config.exchange_rate_note)>>
    ELSE <<a.config.vat_note, NoteWords(a.config.exchange_rate_note)>>

\* int((width - 2*margin - 36) / (10 * 0.55)) characters a line
NoteWidth == WrapWidth(PageW - 2 * margin - Pt(36), 10)

\* C12: in both languages and for every VAT note and exchange-rate note,
\* once the summary section has run, the box is as high as the configured
\* notes say, (5 + their wrapped lines) * 16 + 24, and every line of the
\* section (the five labels with their values, then the wrapped lines of
\* the VAT note and of the exchange-rate note rendered for the language)
\* is drawn with its baseline at or above the bottom edge of the box, and
\* below its top edge.
C12_SummaryNeverClips ==
    cv.at \in {"bank", "save", "done"} =>
        LET pg    == AllPages(cv)
            page  == pg[SummaryPage(pg)]
            box   == page[SummaryAt(page)]
            lines == SummaryLines(page)
            notes == RenderedNotes(args)
        IN  /\ \E p \in 1..Len(pg) : SelectSeq(pg[p], IsSummaryBox) # <<>>
            /\ box.h = (5 + WrapCount(args.config.vat_note, NoteWidth)
                          + WrapCount(NoteWords(args.config.exchange_rate_note),
                                      NoteWidth)) * Pt(16) + Pt(24)
            /\ Cardinality({j \in lines : page[j].s = "value"}) = 5
            /\ Cardinality({j \in lines : page[j].s = "vat_note"})
                 = WrapCount(notes[1], NoteWidth)
            /\ Cardinality({j \in lines : page[j].s = "exchange_rate_note"})
                 = WrapCount(notes[2], NoteWidth)
            /\ Cardinality(lines)
                 = 10 + WrapCount(notes[1], NoteWidth)
                      + WrapCount(notes[2], NoteWidth)
            /\ \A j \in lines :
                  /\ page[j].y >= box.y
                  /\ page[j].y < box.y + box.h

\* the French rendering of a config with no VAT note and a one-line
\* exchange-rate note: the box is sized for six lines, seven are drawn, and
\* the last baseline is 6 pt above the bottom edge
C12_Witness ==
    /\ cv.at = "bank"
    /\ args.lang = "fr"
    /\ args.config.vat_note = <<>>
    /\ args.config.exchange_rate_note.kind = "exact"
    /\ LET page == cv.page
           box  == page[SummaryAt(page)]
       IN  /\ box.h = 6 * Pt(16) + Pt(24)
           /\ Cardinality(SummaryLines(page)) = 12
           /\ \E j \in SummaryLines(page) :
                 /\ page[j].s = "exchange_rate_note"
                 /\ page[j].y = box.y + Pt(6)
===========================================================================
